---- MODULE Spec2Model ----
(***************************************************************************)
(* Model of adityafaths/multicompressgo.                                   *)
(*                                                                         *)
(* Part 1 (SpecCompress): compressIntoRange and its helpers tryQualityBS,  *)
(* resizeToScale, ensureMinSide and saveJPGBytes, run step by step on one  *)
(* decoded image.  Scales are float64 in the source; here they are fixed   *)
(* point numbers with One = 1.0 (resolution 1e-4).  The JPEG encoder is an *)
(* external library: its byte count is modelled as a function of the       *)
(* raster's 8x8 block count, the quality and per-image parameters drawn in *)
(* Init (complexity, a non-monotone quality spike, a resampling gain).     *)
(* Quantities are kept within 32 bits.                                     *)
(*                                                                         *)
(* Part 2 (SpecBatch): the goroutine fan-out of processHandler.            *)
(***************************************************************************)
EXTENDS Integers, Sequences, FiniteSets, TLC

VARIABLES
    \* ---- compressIntoRange ----
    img,        \* the decoded source image and its encoder characteristics
    cfg,        \* the request's settings (speed, min_side, scale_min, upscale_max)
    pc,         \* position inside compressIntoRange
    lo, hi, i,  \* SHRINKING loop variables
    bestData, bestScale, bestQ,
    sizeB, curScale, iters,
    result,     \* the five values compressIntoRange returns
    trail,      \* history: the orchestrator states entered so far
    lastBS,     \* history: the last tryQualityBS call and what it returned
    growLog,    \* history of GROWING: the size held when it began (pre), the sizes of
                \* its fitting trials (fits), sizeB after each of its steps (hist),
                \* and per loop iteration its scale, outcome and sizeB before (trials)
    encErr,     \* history: an encoder call of this run returned an error
    \* ---- processOneFileEntry ----
    doc,        \* the document's pages: what rendering and compressing each does
    epc,        \* position inside processOneFileEntry
    pageNo,     \* pages handled so far by the loop the entry is in (n, idx)
    images,     \* pdfBytesToImages' slice imgs: the pages rendered so far
    processed, skipped, outs,   \* processOneFileEntry's locals of these names
    \* ---- resizeToScale and ensureMinSide on their own ----
    rin,        \* the raster and the min_side drawn for the calls
    rpc,        \* which calls have been made
    rout,       \* their results
    \* ---- processHandler ----
    jobs,         \* the jobs collected from the upload, in dispatch order
    threads,      \* THREADS, the capacity of the channel sem
    dpc,          \* the handler's position: "loop", then "closed" after wg.Wait, zw.Close
    nxt,          \* index of the next job the for loop dispatches
    sem,          \* number of tokens in the channel sem
    wg,           \* the WaitGroup counter
    mu,           \* the job whose goroutine holds mu, 0 when unlocked
    tpc,          \* each job goroutine's position
    ret,          \* what processOneFileEntry returned to each goroutine
    idx,          \* each goroutine's index in its range over processed
    snap,         \* the value a goroutine read in an append it has not yet written back
    zw,           \* the entries created in the zip writer; each file entry records
                  \* which labels' directory entries preceded it (the rest of the
                  \* archive order is not kept)
    summaryLines, \* the shared slice summaryLines
    skippedAll,   \* the shared map skippedAll, label -> failure strings
    crashed,      \* the runtime ended the process (fatal error: concurrent map writes)
    \* ---- compressImage (compress.go) ----
    gimg,       \* the image passed to compressImage
    gpc,        \* its position: "start", "loop", "done"
    graster,    \* img after the minimum-side resize
    gquality,   \* the local quality
    gbuf,       \* the bytes in buf
    gtried,     \* the (quality, length) of every jpeg.Encode made so far, in order
    \* ---- processHandler: collecting the jobs, and the paths they write ----
    uploads,    \* the multipart files of the request, in order
    upos,       \* index of the next file the collecting loop takes
    now,        \* time.Now().Unix()
    usedLabels, \* the map usedLabels, base -> count
    collected,  \* the slice jobs built by the loop
    written,    \* the file entries created in the archive: (job, path)
    \* ---- the upload handler of compress.go ----
    mfiles,     \* what each uploaded file is
    mdpc,       \* the handler's position: "loop", then "closed" after wg.Wait, zw.Close
    mnxt,       \* index of the next file the for loop starts a goroutine for
    mwg,        \* the WaitGroup counter
    mmu,        \* the file whose goroutine holds mu, 0 when unlocked
    mtpc,       \* each goroutine's position
    mleft,      \* the locked sections each goroutine has still to run
    mzw,        \* the entries created in the zip writer, each with whether the
                \* writer was closed by then
    msummary    \* processingSummary

cvars == <<img, cfg, pc, lo, hi, i, bestData, bestScale, bestQ, sizeB, curScale,
           iters, result, trail, lastBS, growLog, encErr>>

evars == <<doc, epc, pageNo, images, processed, skipped, outs>>

rvars == <<rin, rpc, rout>>

bvars == <<jobs, threads, dpc, nxt, sem, wg, mu, tpc, ret, idx, snap, zw,
           summaryLines, skippedAll, crashed>>

gvars == <<gimg, gpc, graster, gquality, gbuf, gtried>>

\* The variables of the parts added to the four above.
lvars == <<uploads, upos, now, usedLabels, collected, written>>

mvars == <<mfiles, mdpc, mnxt, mwg, mmu, mtpc, mleft, mzw, msummary>>

xvars == <<gvars, lvars, mvars>>

vars == <<cvars, bvars, evars, rvars, xvars>>

\* ---- program constants (src/unnamed/part_000 lines 27-45) ----
MIN_SIDE_PX == 256
SCALE_MIN   == 3500      \* 0.35
UPSCALE_MAX == 20000     \* 2.0
MAX_QUALITY == 95
MIN_QUALITY == 15
TARGET_KB   == 174
MIN_KB      == 168

\* ---- fixed point ----
One == 10000             \* the float64 value 1.0
Eps == 10                \* the float64 value 1e-3

\* jpeg.Encode fails ("image is too large to encode") on a side of 1<<16 or more.
EncoderMaxDim == 65535

min(a, b) == IF a < b THEN a ELSE b

max(a, b) == IF a > b THEN a ELSE b

\* A raster: its dimensions and whether it went through imaging.Resize.
Raster(w, h, rs) == [w |-> w, h |-> h, rs |-> rs]

\* No bytes (Go's nil slice).
NilData == [w |-> 0, h |-> 0, rs |-> FALSE, q |-> 0, len |-> 0]

\* Encoded bytes per 100 blocks at quality q, before the image's factors.
Rate(q) == q + (q * q) \div 20

Blocks(r) == ((r.w + 7) \div 8) * ((r.h + 7) \div 8)

\* len(buf.Bytes()) after jpeg.Encode of raster r of image im at quality q:
\* 623 bytes of markers and tables, then the blocks.  im.cplx scales the bytes
\* per block, im.gain (percent) is what resampling leaves of them, and at
\* quality im.spike (0: none) the image encodes three times larger, which
\* makes its size non-monotone in quality.
EncodedLen(im, r, q) ==
    LET spike == IF q = im.spike THEN 3 ELSE 1
        gain  == IF r.rs THEN im.gain ELSE 100
        b100  == (im.cplx * Rate(q) * spike * gain) \div 100
        n     == Blocks(r)
    IN  623 + (n \div 100) * b100 + ((n % 100) * b100) \div 100

\* saveJPGBytes: (bytes, err).
saveJPGBytes(im, r, quality) ==
    IF r.w > EncoderMaxDim \/ r.h > EncoderMaxDim
    THEN [err |-> TRUE, data |-> NilData]
    ELSE [err |-> FALSE,
          data |-> [w |-> r.w, h |-> r.h, rs |-> r.rs, q |-> quality,
                    len |-> EncodedLen(im, r, quality)]]

\* Mutant: a fitting midpoint sends the search to the lower half.
RECURSIVE BSLoopSwapped(_, _, _, _, _, _)
BSLoopSwapped(im, r, targetKB, l, h, best) ==
    IF l > h
    THEN IF best = NilData
         THEN [err |-> FALSE, data |-> NilData, q |-> 0]
         ELSE [err |-> FALSE, data |-> best, q |-> best.q]
    ELSE LET mid == (l + h) \div 2
             e   == saveJPGBytes(im, r, mid)
         IN  IF e.err
             THEN [err |-> TRUE, data |-> NilData, q |-> 0]
             ELSE IF e.data.len <= targetKB * 1024
                  THEN BSLoopSwapped(im, r, targetKB, l, mid - 1, e.data)
                  ELSE BSLoopSwapped(im, r, targetKB, mid + 1, h, best)

\* Mutant: the midpoint's bytes are kept as best before the size is compared.
RECURSIVE BSLoopKeepsLast(_, _, _, _, _, _)
BSLoopKeepsLast(im, r, targetKB, l, h, best) ==
    IF l > h
    THEN IF best = NilData
         THEN [err |-> FALSE, data |-> NilData, q |-> 0]
         ELSE [err |-> FALSE, data |-> best, q |-> best.q]
    ELSE LET mid == (l + h) \div 2
             e   == saveJPGBytes(im, r, mid)
         IN  IF e.err
             THEN [err |-> TRUE, data |-> NilData, q |-> 0]
             ELSE IF e.data.len <= targetKB * 1024
                  THEN BSLoopKeepsLast(im, r, targetKB, mid + 1, h, e.data)
                  ELSE BSLoopKeepsLast(im, r, targetKB, l, mid - 1, e.data)

\* The loop of tryQualityBS from (lo, hi, best, bestQ); best = NilData is nil.
RECURSIVE BSLoop(_, _, _, _, _, _)
BSLoop(im, r, targetKB, l, h, best) ==
    IF l > h
    THEN IF best = NilData
         THEN [err |-> FALSE, data |-> NilData, q |-> 0]
         ELSE [err |-> FALSE, data |-> best, q |-> best.q]
    ELSE LET mid == (l + h) \div 2
             e   == saveJPGBytes(im, r, mid)
         IN  IF e.err
             THEN [err |-> TRUE, data |-> NilData, q |-> 0]
             ELSE IF e.data.len <= targetKB * 1024
                  THEN BSLoop(im, r, targetKB, mid + 1, h, e.data)
                  ELSE BSLoop(im, r, targetKB, l, mid - 1, best)

\* Mutant: the search starts with hi = qmax - 1.
tryQualityBSSkipMax(im, r, targetKB, qmin, qmax) ==
    BSLoop(im, r, targetKB, qmin, qmax - 1, NilData)

tryQualityBS(im, r, targetKB, qmin, qmax) ==
    BSLoop(im, r, targetKB, qmin, qmax, NilData)


\* int(float64(side) * num/den), clamped to >= 1.
ScaledSide(side, num, den) ==
    LET v == (side * num) \div den IN IF v < 1 THEN 1 ELSE v

\* ---- float64 arithmetic of ensureMinSide (line 145 and lines 124-125) ----
RECURSIVE Pow2(_)
Pow2(n) == IF n <= 0 THEN 1 ELSE 2 * Pow2(n - 1)

\* 2^p mod b.
RECURSIVE PowMod2(_, _)
PowMod2(p, b) == IF p = 0 THEN 1 % b ELSE (2 * PowMod2(p - 1, b)) % b

\* The binary exponent of a/b (a >= b): the largest j with 2^j * b <= a.
RECURSIVE QuotExp(_, _)
QuotExp(a, b) == IF 2 * b > a THEN 0 ELSE 1 + QuotExp(a, 2 * b)

\* The binary exponent of the float64 values just below k: 2^E < k <= 2^(E+1).
RECURSIVE BelowExp(_)
BelowExp(k) == IF k <= 2 THEN 0 ELSE 1 + BelowExp((k + 1) \div 2)

\* float64(side) * (float64(a) / float64(b)) is below the exact product.  The
\* quotient is rounded to 53 bits; when it is rounded down by the remainder rem
\* of a * 2^(52-j) by b, and side*a/b is an integer k, the product lies
\* side*rem / (b * 2^(52-j)) below k and is rounded to the float64 under k when
\* that exceeds half the spacing 2^(E-52) of the values under k.
Float64Short(side, a, b) ==
    /\ (side * a) % b = 0
    /\ LET j   == QuotExp(a, b)
           rem == (a * PowMod2(52 - j, b)) % b
           E   == BelowExp((side * a) \div b)
       IN  /\ rem > 0 /\ 2 * rem < b
           /\ IF E >= j + 1
              THEN side * rem > b * Pow2(E - j - 1)
              ELSE side * rem * Pow2(j + 1 - E) > b

\* int(float64(side) * scale) for scale = float64(minSide) / float64(m),
\* clamped to >= 1 (lines 124-131).
Float64Side(side, minSide, m) ==
    LET v == IF Float64Short(side, minSide, m)
             THEN (side * minSide) \div m - 1
             ELSE (side * minSide) \div m
    IN  IF v < 1 THEN 1 ELSE v

resizeToScale(r, scale) ==
    Raster(ScaledSide(r.w, scale, One), ScaledSide(r.h, scale, One), TRUE)

ensureMinSide(r, minSide) ==
    IF r.w >= minSide /\ r.h >= minSide
    THEN r
    ELSE LET m == min(r.w, r.h)
         IN  IF minSide < m
             THEN Raster(ScaledSide(r.w, 1, 1), ScaledSide(r.h, 1, 1), TRUE)
             ELSE Raster(Float64Side(r.w, minSide, m), Float64Side(r.h, minSide, m), TRUE)

\* rgb: the source flattened on white, same size, never resampled.
Rgb == Raster(img.w, img.h, FALSE)

\* The raster a trial at `scale` encodes: resizeToScale then ensureMinSide.
Candidate(scale) == ensureMinSide(resizeToScale(Rgb, scale), cfg.minSide)

\* ---- Init: the images and settings the run is drawn from ----
Sizes == { <<4000, 3000>>, <<800, 600>>, <<200, 100>>, <<3000, 400>>,
           <<60000, 300>>, <<30000, 300>> }

Complexities == {1, 4, 8, 20, 40}

Gains == {100, 40, 25, 10}

Spikes == {0, 55}

Images ==
    { [w |-> s[1], h |-> s[2], cplx |-> c, spike |-> k, gain |-> g] :
        s \in Sizes, c \in Complexities, k \in Spikes, g \in Gains }

\* scale_min is read from the form without validation: 3.0 is accepted.
Cfgs ==
    { [speedFast |-> f, minKB |-> MIN_KB, maxKB |-> TARGET_KB,
       minSide |-> MIN_SIDE_PX, scaleMin |-> sm, upscaleMax |-> UPSCALE_MAX] :
        f \in BOOLEAN, sm \in {SCALE_MIN, 3 * One} }

NoResult == [data |-> NilData, scale |-> 0, q |-> 0, size |-> 0, err |-> FALSE]

NoBS == [r |-> Raster(0, 0, FALSE), targetKB |-> 0, qmin |-> 0, qmax |-> 0,
         out |-> [err |-> FALSE, data |-> NilData, q |-> 0]]

\* processOneFileEntry has decoded an image and is inside compressIntoRange.
EntryCompressing ==
    /\ doc = << >> /\ epc = "compress" /\ pageNo = 0 /\ images = << >>
    /\ processed = << >> /\ skipped = << >> /\ outs = {}

\* No call of resizeToScale or ensureMinSide is followed on its own.
ResizeIdle ==
    /\ rin = [w |-> 1, h |-> 1, minSide |-> 1] /\ rpc = "idle"
    /\ rout = << >>

\* compressImage of compress.go is not being called.
GinImageIdle ==
    /\ gimg = [w |-> 1, h |-> 1, cplx |-> 1, spike |-> 0, gain |-> 100]
    /\ gpc = "idle" /\ graster = Raster(1, 1, FALSE)
    /\ gquality = 0 /\ gbuf = NilData /\ gtried = << >>

\* No upload is being collected into jobs.
CollectIdle ==
    /\ uploads = << >> /\ upos = 0 /\ now = 0
    /\ usedLabels = << >> /\ collected = << >> /\ written = {}

\* The upload handler of compress.go is not running.
GinMainIdle ==
    /\ mfiles = << >> /\ mdpc = "idle" /\ mnxt = 0 /\ mwg = 0 /\ mmu = 0
    /\ mtpc = << >> /\ mleft = << >> /\ mzw = {} /\ msummary = << >>

\* None of the parts added to the four is running.
ExtrasIdle == GinImageIdle /\ CollectIdle /\ GinMainIdle

\* No request is being handled.
BatchIdle ==
    /\ jobs = << >> /\ threads = 0 /\ dpc = "idle" /\ nxt = 0
    /\ sem = 0 /\ wg = 0 /\ mu = 0
    /\ tpc = << >> /\ ret = << >> /\ idx = << >> /\ snap = << >>
    /\ zw = {} /\ summaryLines = << >> /\ skippedAll = << >>
    /\ crashed = FALSE

InitCompress ==
    /\ img \in Images
    /\ cfg \in Cfgs
    /\ pc = "ORIGINAL"
    /\ lo = 0 /\ hi = 0 /\ i = 0
    /\ bestData = NilData /\ bestScale = 0 /\ bestQ = 0
    /\ sizeB = 0 /\ curScale = 0 /\ iters = 0
    /\ result = NoResult
    /\ trail = <<"ORIGINAL">>
    /\ lastBS = NoBS
    /\ growLog = [pre |-> 0, fits |-> {}, hist |-> << >>, trials |-> << >>]
    /\ encErr = FALSE
    /\ EntryCompressing
    /\ BatchIdle
    /\ ResizeIdle
    /\ ExtrasIdle

BSCall(r, targetKB, qmin, qmax) ==
    [r |-> r, targetKB |-> targetKB, qmin |-> qmin, qmax |-> qmax,
     out |-> tryQualityBS(img, r, targetKB, qmin, qmax)]

Return(data, scale, q, err) ==
    [data |-> data, scale |-> scale, q |-> q, size |-> data.len, err |-> err]

\* Lines 156-166: flatten, quality search at the original size.
Original ==
    /\ pc = "ORIGINAL"
    /\ LET c == BSCall(Rgb, cfg.maxKB, MIN_QUALITY, MAX_QUALITY) IN
       /\ lastBS' = c
       /\ encErr' = (encErr \/ c.out.err)
       /\ IF c.out.err
          THEN /\ result' = Return(NilData, 0, 0, TRUE)
               /\ pc' = "DONE"
               /\ trail' = Append(trail, "DONE")
               /\ UNCHANGED <<lo, hi>>
          ELSE IF c.out.data # NilData
          THEN /\ result' = Return(c.out.data, One, c.out.q, FALSE)
               /\ pc' = "DONE"
               /\ trail' = Append(trail, "DONE")
               /\ UNCHANGED <<lo, hi>>
          ELSE /\ lo' = cfg.scaleMin
               /\ hi' = One
               /\ pc' = "SHRINKING"
               /\ trail' = Append(trail, "SHRINKING")
               /\ UNCHANGED result
    /\ UNCHANGED <<img, cfg, i, bestData, bestScale, bestQ, sizeB, curScale, iters, growLog>>
    /\ UNCHANGED <<bvars, evars, rvars, xvars>>

maxSteps == IF cfg.speedFast THEN 8 ELSE 12

maxIters == IF cfg.speedFast THEN 6 ELSE 12

\* Mutant: a fit leaves bestScale as it was.
AdoptScaleStale(mid) == bestScale

\* Line 187: bestData, bestScale, bestQ = d, mid, q2.
AdoptScale(mid) == mid

\* Mutant: after a fit the search restarts from scaleMin.
BiasUpReset(mid, h) == cfg.scaleMin

\* Line 188: lo = mid + (hi-mid)*0.35.
BiasUp(mid, h) == mid + ((h - mid) * 35) \div 100

\* Lines 178-195: one iteration of the scale search; on the last one, the
\* fall-through of lines 197 and 206-208 that picks what follows the loop.
ShrinkStep ==
    /\ pc = "SHRINKING"
    /\ i < maxSteps
    /\ LET mid  == (lo + hi) \div 2
           c    == BSCall(Candidate(mid), cfg.maxKB, MIN_QUALITY, MAX_QUALITY)
           fit  == c.out.data # NilData
           nlo  == IF fit THEN BiasUp(mid, hi) ELSE lo
           nhi  == IF fit THEN hi ELSE mid - ((mid - lo) * 35) \div 100
           nbd  == IF fit THEN c.out.data ELSE bestData
           nbs  == IF fit THEN AdoptScale(mid) ELSE bestScale
           nbq  == IF fit THEN c.out.q ELSE bestQ
           exit == (nhi - nlo < Eps) \/ (i + 1 >= maxSteps)
       IN
       /\ lastBS' = c
       /\ encErr' = (encErr \/ c.out.err)
       /\ IF c.out.err
          THEN /\ result' = Return(NilData, 0, 0, TRUE)
               /\ pc' = "DONE"
               /\ trail' = Append(trail, "DONE")
               /\ UNCHANGED <<lo, hi, i, bestData, bestScale, bestQ, sizeB, curScale, growLog>>
          ELSE /\ lo' = nlo /\ hi' = nhi /\ i' = i + 1
               /\ bestData' = nbd /\ bestScale' = nbs /\ bestQ' = nbq
               /\ IF ~exit
                  THEN UNCHANGED <<pc, trail, result, sizeB, curScale, growLog>>
                  ELSE IF nbd = NilData
                  THEN /\ pc' = "FALLBACK"
                       /\ trail' = Append(trail, "FALLBACK")
                       /\ UNCHANGED <<result, sizeB, curScale, growLog>>
                  ELSE /\ sizeB' = nbd.len
                       /\ curScale' = nbs
                       /\ IF nbd.len < cfg.minKB * 1024
                          THEN /\ pc' = "GROW_RETRY"
                               /\ trail' = Append(trail, "GROWING")
                               /\ growLog' = [pre |-> nbd.len, fits |-> {}, hist |-> <<nbd.len>>,
                                             trials |-> << >>]
                               /\ UNCHANGED result
                          ELSE /\ pc' = "DONE"
                               /\ trail' = Append(trail, "DONE")
                               /\ result' = Return(nbd, nbs, nbq, FALSE)
                               /\ UNCHANGED growLog
    /\ UNCHANGED <<img, cfg, iters>>
    /\ UNCHANGED <<bvars, evars, rvars, xvars>>

\* Lines 197-203: nothing fitted; encode the smallest allowed raster at MIN_QUALITY.
Fallback ==
    /\ pc = "FALLBACK"
    /\ LET e == saveJPGBytes(img, Candidate(cfg.scaleMin), MIN_QUALITY) IN
       /\ result' = Return(e.data, cfg.scaleMin, MIN_QUALITY, FALSE)
       /\ encErr' = (encErr \/ e.err)
    /\ pc' = "DONE"
    /\ trail' = Append(trail, "DONE")
    /\ UNCHANGED <<img, cfg, lo, hi, i, bestData, bestScale, bestQ, sizeB, curScale,
                   iters, lastBS, growLog>>
    /\ UNCHANGED <<bvars, evars, rvars, xvars>>

\* Mutant: every fitting trial replaces the best.
BetterAlways(d, size) == d # NilData

\* Lines 212 and 238: a fitting trial replaces the best only when it is larger.
Better(d, size) == d # NilData /\ d.len > size

\* Lines 209-220: quality search again at the current geometry.
GrowRetry ==
    /\ pc = "GROW_RETRY"
    /\ LET c == BSCall(Candidate(curScale), cfg.maxKB, max(bestQ, MIN_QUALITY), MAX_QUALITY)
           better == ~c.out.err /\ Better(c.out.data, sizeB)
           nsize  == IF better THEN c.out.data.len ELSE sizeB
       IN
       /\ lastBS' = c
       /\ encErr' = (encErr \/ c.out.err)
       /\ bestData' = IF better THEN c.out.data ELSE bestData
       /\ bestQ' = IF better THEN c.out.q ELSE bestQ
       /\ sizeB' = nsize
       /\ growLog' = [growLog EXCEPT
                        !.fits = IF ~c.out.err /\ c.out.data # NilData
                                 THEN @ \cup {c.out.data.len} ELSE @,
                        !.hist = Append(@, nsize)]
    /\ iters' = 0
    /\ pc' = "GROWING"
    /\ UNCHANGED <<img, cfg, lo, hi, i, bestScale, curScale, result, trail>>
    /\ UNCHANGED <<bvars, evars, rvars, xvars>>

GrowCond == sizeB < cfg.minKB * 1024 /\ curScale < cfg.upscaleMax /\ iters < maxIters

\* Mutant: the multiplied scale is not capped.
CapScaleNone(s) == s

\* Lines 223-225: if curScale > upscaleMax { curScale = upscaleMax }.
CapScale(s) == IF s > cfg.upscaleMax THEN cfg.upscaleMax ELSE s

\* Lines 221-242: one iteration of the upscale loop.
GrowStep ==
    /\ pc = "GROWING"
    /\ GrowCond
    /\ LET s1 == (curScale * 12) \div 10
           s  == CapScale(s1)
           c  == BSCall(Candidate(s), cfg.maxKB, MIN_QUALITY, MAX_QUALITY)
       IN
       /\ lastBS' = c
       /\ encErr' = (encErr \/ c.out.err)
       /\ iters' = iters + 1
       /\ IF c.out.err
          THEN /\ curScale' = s
               /\ growLog' = [growLog EXCEPT
                                !.hist = Append(@, sizeB),
                                !.trials = Append(@, [scale |-> s, out |-> "err",
                                                      before |-> sizeB])]
               /\ UNCHANGED <<bestData, bestQ, sizeB, bestScale>>
          ELSE IF c.out.data = NilData
          THEN /\ curScale' = (s * 95) \div 100
               /\ growLog' = [growLog EXCEPT
                                !.hist = Append(@, sizeB),
                                !.trials = Append(@, [scale |-> s, out |-> "nofit",
                                                      before |-> sizeB])]
               /\ UNCHANGED <<bestData, bestQ, sizeB, bestScale>>
          ELSE /\ curScale' = s
               /\ IF Better(c.out.data, sizeB)
                  THEN /\ bestData' = c.out.data
                       /\ bestQ' = c.out.q
                       /\ sizeB' = c.out.data.len
                       /\ bestScale' = s
                       /\ growLog' = [growLog EXCEPT
                                        !.fits = @ \cup {c.out.data.len},
                                        !.hist = Append(@, c.out.data.len),
                                        !.trials = Append(@, [scale |-> s, out |-> "fit",
                                                              before |-> sizeB])]
                  ELSE /\ growLog' = [growLog EXCEPT
                                        !.fits = @ \cup {c.out.data.len},
                                        !.hist = Append(@, sizeB),
                                        !.trials = Append(@, [scale |-> s, out |-> "fit",
                                                              before |-> sizeB])]
                       /\ UNCHANGED <<bestData, bestQ, sizeB, bestScale>>
    /\ UNCHANGED <<img, cfg, pc, lo, hi, i, result, trail>>
    /\ UNCHANGED <<bvars, evars, rvars, xvars>>

\* Line 244: the loop condition fails; return the best accumulated.
GrowExit ==
    /\ pc = "GROWING"
    /\ ~GrowCond
    /\ result' = Return(bestData, bestScale, bestQ, FALSE)
    /\ pc' = "DONE"
    /\ trail' = Append(trail, "DONE")
    /\ UNCHANGED <<img, cfg, lo, hi, i, bestData, bestScale, bestQ, sizeB, curScale,
                   iters, lastBS, growLog, encErr>>
    /\ UNCHANGED <<bvars, evars, rvars, xvars>>

\* Lines 371-380 of processOneFileEntry: what the image branch does with the
\* five values compressIntoRange returned.  Page 0 names the image's one output.
RecordImage ==
    /\ pc = "DONE" /\ epc = "compress"
    /\ IF result.err
       THEN /\ skipped' = Append(skipped, [page |-> 0, what |-> "compress error"])
            /\ UNCHANGED <<processed, outs>>
       ELSE /\ outs' = outs \cup { [page |-> 0, data |-> result.data] }
            /\ processed' = Append(processed, [page |-> 0, size |-> result.size,
                                               scale |-> result.scale, q |-> result.q])
            /\ UNCHANGED skipped
    /\ epc' = "returned"
    /\ UNCHANGED <<doc, pageNo, images>>
    /\ UNCHANGED <<cvars, bvars, rvars, xvars>>

NextCompress ==
    \/ Original \/ ShrinkStep \/ Fallback \/ GrowRetry \/ GrowStep \/ GrowExit
    \/ RecordImage

SpecCompress == InitCompress /\ [][NextCompress]_vars

(***************************************************************************)
(* processHandler: one goroutine per job, a semaphore channel of capacity  *)
(* THREADS, a WaitGroup and one mutex (lines 582-622).                      *)
(***************************************************************************)
MaxJobs    == 2     \* jobs in one upload
MaxThreads == 2     \* THREADS is 4 by default and read from the environment

\* What a job's bytes turn out to be.
JobKinds == {"image", "badimage", "pdf", "panic"}

\* No compressIntoRange run is followed while the batch is.
CompressIdle ==
    /\ img = [w |-> 1, h |-> 1, cplx |-> 1, spike |-> 0, gain |-> 100]
    /\ cfg = [speedFast |-> TRUE, minKB |-> MIN_KB, maxKB |-> TARGET_KB,
              minSide |-> MIN_SIDE_PX, scaleMin |-> SCALE_MIN, upscaleMax |-> UPSCALE_MAX]
    /\ pc = "IDLE"
    /\ lo = 0 /\ hi = 0 /\ i = 0
    /\ bestData = NilData /\ bestScale = 0 /\ bestQ = 0
    /\ sizeB = 0 /\ curScale = 0 /\ iters = 0
    /\ result = NoResult
    /\ trail = << >>
    /\ lastBS = NoBS
    /\ growLog = [pre |-> 0, fits |-> {}, hist |-> << >>, trials |-> << >>]
    /\ encErr = FALSE

\* No single entry is followed step by step.
EntryIdle ==
    /\ doc = << >> /\ epc = "idle" /\ pageNo = 0 /\ images = << >>
    /\ processed = << >> /\ skipped = << >> /\ outs = {}

\* The values processOneFileEntry's locals hold when its body ends, and whether
\* it ended in a panic.  An image yields one output; an undecodable image one
\* failure; a PDF here has two pages, page 1's compression errs (one failure)
\* and page 2 yields one output;
\* a panic is recovered by the deferred function, which appends to `skipped`.
Body(job) ==
    CASE job.kind = "image" ->
           [processed |-> << <<job.rel, 0>> >>, skipped |-> << >>,
            outs |-> { <<job.rel, 0>> }, panicked |-> FALSE]
      [] job.kind = "badimage" ->
           [processed |-> << >>, skipped |-> << <<job.rel, "decode error">> >>,
            outs |-> {}, panicked |-> FALSE]
      [] job.kind = "pdf" ->
           [processed |-> << <<job.rel, 2>> >>,
            skipped |-> << <<job.rel, "page 1">> >>,
            outs |-> { <<job.rel, 2>> }, panicked |-> FALSE]
      [] job.kind = "panic" ->
           [processed |-> << >>, skipped |-> << <<job.rel, "panic">> >>,
            outs |-> {}, panicked |-> TRUE]

\* Mutant: the results are named, so the recovered panic's values are returned.
processOneFileEntryNamed(job) ==
    LET b == Body(job) IN
    [labelKey |-> job.label, processed |-> b.processed, skipped |-> b.skipped,
     outs |-> b.outs]

\* processOneFileEntry's four results.  They are unnamed: after a recovered
\* panic no return statement has run and the caller gets their zero values.
processOneFileEntry(job) ==
    LET b == Body(job) IN
    IF b.panicked
    THEN [labelKey |-> 0, processed |-> << >>, skipped |-> << >>, outs |-> {}]
    ELSE [labelKey |-> job.label, processed |-> b.processed, skipped |-> b.skipped,
          outs |-> b.outs]

NoRet == [labelKey |-> 0, processed |-> << >>, skipped |-> << >>, outs |-> {}]

Labels == 0..MaxJobs

InitBatch ==
    /\ CompressIdle
    /\ EntryIdle
    /\ ResizeIdle
    /\ ExtrasIdle
    /\ \E n \in 1..MaxJobs, shared \in BOOLEAN :
          jobs \in { [j \in 1..n |->
                        [label |-> IF shared THEN 1 ELSE j, rel |-> j, kind |-> ks[j]]] :
                     ks \in [1..n -> JobKinds] }
    /\ threads \in 1..MaxThreads
    /\ dpc = "loop" /\ nxt = 1
    /\ sem = 0 /\ wg = 0 /\ mu = 0
    /\ tpc = [j \in 1..Len(jobs) |-> "unborn"]
    /\ ret = [j \in 1..Len(jobs) |-> NoRet]
    /\ idx = [j \in 1..Len(jobs) |-> 1]
    /\ snap = [j \in 1..Len(jobs) |-> << >>]
    /\ zw = {}
    /\ summaryLines = << >>
    /\ skippedAll = [l \in Labels |-> << >>]
    /\ crashed = FALSE

\* Mutant: the send on sem does not block when the channel is full.
CanAcquireAlways == TRUE

\* Line 593: sem <- struct{}{} proceeds only while the channel is not full.
CanAcquire == sem < threads

\* Lines 591-594: wg.Add(1), take a slot, start the job's goroutine.
Dispatch ==
    /\ ~crashed /\ dpc = "loop"
    /\ nxt <= Len(jobs)
    /\ CanAcquire
    /\ wg' = wg + 1
    /\ sem' = sem + 1
    /\ tpc' = [tpc EXCEPT ![nxt] = "lockDir"]
    /\ nxt' = nxt + 1
    /\ UNCHANGED <<jobs, threads, dpc, mu, ret, idx, snap, zw, summaryLines,
                   skippedAll, crashed>>
    /\ UNCHANGED <<cvars, evars, rvars, xvars>>

\* Lines 621-622: wg.Wait returns when the counter is zero; zw.Close.
WaitAndClose ==
    /\ ~crashed /\ dpc = "loop"
    /\ nxt > Len(jobs)
    /\ wg = 0
    /\ dpc' = "closed"
    /\ UNCHANGED <<jobs, threads, nxt, sem, wg, mu, tpc, ret, idx, snap, zw,
                   summaryLines, skippedAll, crashed>>
    /\ UNCHANGED <<cvars, evars, rvars, xvars>>

\* Line 599: mu.Lock().
LockDir(j) ==
    /\ ~crashed /\ tpc[j] = "lockDir"
    /\ mu = 0
    /\ mu' = j
    /\ tpc' = [tpc EXCEPT ![j] = "createDir"]
    /\ UNCHANGED <<jobs, threads, dpc, nxt, sem, wg, ret, idx, snap, zw, summaryLines,
                   skippedAll, crashed>>
    /\ UNCHANGED <<cvars, evars, rvars, xvars>>

\* Mutant: the goroutine keeps the mutex after writing the folder entry.
AfterCreateDirHeld(j) == j

\* Line 601: mu.Unlock().
AfterCreateDir(j) == 0

\* Lines 600-601: zw.Create(lblFolder + "/"); mu.Unlock().
CreateDir(j) ==
    /\ ~crashed /\ tpc[j] = "createDir"
    /\ zw' = zw \cup { [dir |-> TRUE, label |-> jobs[j].label, name |-> <<0, 0>>,
                         job |-> j, after |-> {}] }
    /\ mu' = AfterCreateDir(j)
    /\ tpc' = [tpc EXCEPT ![j] = "process"]
    /\ UNCHANGED <<jobs, threads, dpc, nxt, sem, wg, ret, idx, snap, summaryLines,
                   skippedAll, crashed>>
    /\ UNCHANGED <<cvars, evars, rvars, xvars>>

\* Line 603: the call of processOneFileEntry.
Process(j) ==
    /\ ~crashed /\ tpc[j] = "process"
    /\ ret' = [ret EXCEPT ![j] = processOneFileEntry(jobs[j])]
    /\ idx' = [idx EXCEPT ![j] = 1]
    /\ tpc' = [tpc EXCEPT ![j] = "summary"]
    /\ UNCHANGED <<jobs, threads, dpc, nxt, sem, wg, mu, snap, zw, summaryLines,
                   skippedAll, crashed>>
    /\ UNCHANGED <<cvars, evars, rvars, xvars>>

\* Line 605, first half: append reads the slice summaryLines.  No lock is held.
SummaryRead(j) ==
    /\ ~crashed /\ tpc[j] = "summary"
    /\ idx[j] <= Len(ret[j].processed)
    /\ snap' = [snap EXCEPT ![j] = summaryLines]
    /\ tpc' = [tpc EXCEPT ![j] = "summaryWrite"]
    /\ UNCHANGED <<jobs, threads, dpc, nxt, sem, wg, mu, ret, idx, zw, summaryLines,
                   skippedAll, crashed>>
    /\ UNCHANGED <<cvars, evars, rvars, xvars>>

\* Line 605, second half: the slice read, plus the line, is stored back.
SummaryWrite(j) ==
    /\ ~crashed /\ tpc[j] = "summaryWrite"
    /\ summaryLines' = Append(snap[j],
                              [label |-> ret[j].labelKey, out |-> ret[j].processed[idx[j]]])
    /\ idx' = [idx EXCEPT ![j] = @ + 1]
    /\ snap' = [snap EXCEPT ![j] = << >>]
    /\ tpc' = [tpc EXCEPT ![j] = "summary"]
    /\ UNCHANGED <<jobs, threads, dpc, nxt, sem, wg, mu, ret, zw, skippedAll, crashed>>
    /\ UNCHANGED <<cvars, evars, rvars, xvars>>

\* Lines 607-608, first half: after the range over processed, skippedAll[labelKey]
\* is read if anything was skipped.  No lock is held.
SkippedRead(j) ==
    /\ ~crashed /\ tpc[j] = "summary"
    /\ idx[j] > Len(ret[j].processed)
    /\ IF Len(ret[j].skipped) > 0
       THEN /\ snap' = [snap EXCEPT ![j] = skippedAll[ret[j].labelKey]]
            /\ tpc' = [tpc EXCEPT ![j] = "skippedWrite"]
       ELSE /\ tpc' = [tpc EXCEPT ![j] = "lockOuts"]
            /\ UNCHANGED snap
    /\ UNCHANGED <<jobs, threads, dpc, nxt, sem, wg, mu, ret, idx, zw, summaryLines,
                   skippedAll, crashed>>
    /\ UNCHANGED <<cvars, evars, rvars, xvars>>

\* Line 608, second half: the map entry is assigned.
SkippedWrite(j) ==
    /\ ~crashed /\ tpc[j] = "skippedWrite"
    /\ skippedAll' = [skippedAll EXCEPT ![ret[j].labelKey] = snap[j] \o ret[j].skipped]
    /\ snap' = [snap EXCEPT ![j] = << >>]
    /\ tpc' = [tpc EXCEPT ![j] = "lockOuts"]
    /\ UNCHANGED <<jobs, threads, dpc, nxt, sem, wg, mu, ret, idx, zw, summaryLines, crashed>>
    /\ UNCHANGED <<cvars, evars, rvars, xvars>>

\* Line 608 run by two goroutines at once: the Go runtime may detect the
\* concurrent map writes and end the process.
MapWriteFault(j) ==
    /\ ~crashed /\ tpc[j] = "skippedWrite"
    /\ \E o \in DOMAIN tpc : o # j /\ tpc[o] = "skippedWrite"
    /\ crashed' = TRUE
    /\ UNCHANGED <<jobs, threads, dpc, nxt, sem, wg, mu, tpc, ret, idx, snap, zw,
                   summaryLines, skippedAll>>
    /\ UNCHANGED <<cvars, evars, rvars, xvars>>

\* Line 611: mu.Lock().
LockOuts(j) ==
    /\ ~crashed /\ tpc[j] = "lockOuts"
    /\ mu = 0
    /\ mu' = j
    /\ tpc' = [tpc EXCEPT ![j] = "writeOuts"]
    /\ UNCHANGED <<jobs, threads, dpc, nxt, sem, wg, ret, idx, snap, zw, summaryLines,
                   skippedAll, crashed>>
    /\ UNCHANGED <<cvars, evars, rvars, xvars>>

\* The labels whose directory entry is in the archive.
DirLabels == { e.label : e \in { x \in zw : x.dir } }

\* The file entries zw.Create(filepath.Join(lblFolder, rel)) makes of outs.
OutEntries(j, label, files) ==
    { [dir |-> FALSE, label |-> label, name |-> o, job |-> j, after |-> DirLabels] :
        o \in files }

\* Lines 612-617: every output is written under lblFolder; mu.Unlock().
WriteOuts(j) ==
    /\ ~crashed /\ tpc[j] = "writeOuts"
    /\ zw' = zw \cup OutEntries(j, jobs[j].label, ret[j].outs)
    /\ mu' = 0
    /\ tpc' = [tpc EXCEPT ![j] = "release"]
    /\ UNCHANGED <<jobs, threads, dpc, nxt, sem, wg, ret, idx, snap, summaryLines,
                   skippedAll, crashed>>
    /\ UNCHANGED <<cvars, evars, rvars, xvars>>

\* Mutant: a job that recorded failures returns without receiving from sem.
AfterReleaseLeaky(j) == IF Len(ret[j].skipped) > 0 THEN sem ELSE sem - 1

\* Line 618: <-sem, reached by every job.
AfterRelease(j) == sem - 1

Release(j) ==
    /\ ~crashed /\ tpc[j] = "release"
    /\ sem' = AfterRelease(j)
    /\ tpc' = [tpc EXCEPT ![j] = "exit"]
    /\ UNCHANGED <<jobs, threads, dpc, nxt, wg, mu, ret, idx, snap, zw, summaryLines,
                   skippedAll, crashed>>
    /\ UNCHANGED <<cvars, evars, rvars, xvars>>

\* Line 595: the deferred wg.Done().
Done(j) ==
    /\ ~crashed /\ tpc[j] = "exit"
    /\ wg' = wg - 1
    /\ tpc' = [tpc EXCEPT ![j] = "done"]
    /\ UNCHANGED <<jobs, threads, dpc, nxt, sem, mu, ret, idx, snap, zw, summaryLines,
                   skippedAll, crashed>>
    /\ UNCHANGED <<cvars, evars, rvars, xvars>>

NextBatch ==
    \/ Dispatch
    \/ WaitAndClose
    \/ \E j \in DOMAIN tpc : LockDir(j)
    \/ \E j \in DOMAIN tpc : CreateDir(j)
    \/ \E j \in DOMAIN tpc : Process(j)
    \/ \E j \in DOMAIN tpc : SummaryRead(j)
    \/ \E j \in DOMAIN tpc : SummaryWrite(j)
    \/ \E j \in DOMAIN tpc : SkippedRead(j)
    \/ \E j \in DOMAIN tpc : SkippedWrite(j)
    \/ \E j \in DOMAIN tpc : MapWriteFault(j)
    \/ \E j \in DOMAIN tpc : LockOuts(j)
    \/ \E j \in DOMAIN tpc : WriteOuts(j)
    \/ \E j \in DOMAIN tpc : Release(j)
    \/ \E j \in DOMAIN tpc : Done(j)

SpecBatch == InitBatch /\ [][NextBatch]_vars

\* The steps of the handler's own goroutine, and of the goroutine of job j.
HandlerSteps == Dispatch \/ WaitAndClose

TaskSteps(j) ==
    \/ LockDir(j) \/ CreateDir(j) \/ Process(j)
    \/ SummaryRead(j) \/ SummaryWrite(j)
    \/ SkippedRead(j) \/ SkippedWrite(j) \/ MapWriteFault(j)
    \/ LockOuts(j) \/ WriteOuts(j) \/ Release(j) \/ Done(j)

\* The Go scheduler runs every goroutine that can take a step.
SpecBatchFair ==
    /\ SpecBatch
    /\ WF_vars(HandlerSteps)
    /\ \A j \in 1..MaxJobs : WF_vars(j \in DOMAIN tpc /\ TaskSteps(j))

(***************************************************************************)
(* processOneFileEntry on a PDF (lines 337-352) with pdfBytesToImages       *)
(* (lines 248-277), one page per step.                                      *)
(***************************************************************************)
MaxPages == 3     \* pages of the document

\* What happens to a page: it renders and compresses; doc.Image fails on it;
\* it renders and compressIntoRange returns an error for it.
PageKinds == {"ok", "norender", "nocompress"}

Docs ==
    { [opens |-> o, pages |-> ps] :
        o \in BOOLEAN,
        ps \in UNION { [1..n -> PageKinds] : n \in 1..MaxPages } }

InitEntry ==
    /\ doc \in Docs
    /\ epc = "open"
    /\ pageNo = 0 /\ images = << >>
    /\ processed = << >> /\ skipped = << >> /\ outs = {}
    /\ CompressIdle
    /\ BatchIdle
    /\ ResizeIdle
    /\ ExtrasIdle

\* Lines 250-266: the temp file and fitz.New; on an error lines 338-341 record
\* it for the whole document and return.
OpenDoc ==
    /\ epc = "open"
    /\ IF doc.opens
       THEN /\ epc' = "render"
            /\ UNCHANGED skipped
       ELSE /\ skipped' = Append(skipped, [page |-> 0, what |-> "pdf render error"])
            /\ epc' = "returned"
    /\ UNCHANGED <<doc, pageNo, images, processed, outs>>
    /\ UNCHANGED <<cvars, bvars, rvars, xvars>>

\* Lines 268-274: one iteration of pdfBytesToImages' loop.  When doc.Image
\* fails the function returns (nil, err) and lines 338-341 record the error
\* and return.
RenderPage ==
    /\ epc = "render"
    /\ pageNo < Len(doc.pages)
    /\ IF doc.pages[pageNo + 1] = "norender"
       THEN /\ images' = << >>
            /\ skipped' = Append(skipped, [page |-> 0, what |-> "pdf render error"])
            /\ epc' = "returned"
            /\ UNCHANGED pageNo
       ELSE /\ images' = Append(images, pageNo + 1)
            /\ pageNo' = pageNo + 1
            /\ UNCHANGED <<skipped, epc>>
    /\ UNCHANGED <<doc, processed, outs>>
    /\ UNCHANGED <<cvars, bvars, rvars, xvars>>

\* Lines 275-276 and 342: every page rendered; the range over images begins.
RenderDone ==
    /\ epc = "render"
    /\ pageNo = Len(doc.pages)
    /\ epc' = "pages"
    /\ pageNo' = 0
    /\ UNCHANGED <<doc, images, processed, skipped, outs>>
    /\ UNCHANGED <<cvars, bvars, rvars, xvars>>

\* Lines 342-351: one iteration of the range over images.
CompressPage ==
    /\ epc = "pages"
    /\ pageNo < Len(images)
    /\ LET n == images[pageNo + 1] IN
       IF doc.pages[n] = "nocompress"
       THEN /\ skipped' = Append(skipped, [page |-> n, what |-> "compress error"])
            /\ UNCHANGED <<processed, outs>>
       ELSE /\ outs' = outs \cup { [page |-> n, data |-> "jpg"] }
            /\ processed' = Append(processed, [page |-> n])
            /\ UNCHANGED skipped
    /\ pageNo' = pageNo + 1
    /\ UNCHANGED <<doc, epc, images>>
    /\ UNCHANGED <<cvars, bvars, rvars, xvars>>

\* Line 380: return label, processed, skipped, outs.
ReturnEntry ==
    /\ epc = "pages"
    /\ pageNo = Len(images)
    /\ epc' = "returned"
    /\ UNCHANGED <<doc, pageNo, images, processed, skipped, outs>>
    /\ UNCHANGED <<cvars, bvars, rvars, xvars>>

NextEntry == OpenDoc \/ RenderPage \/ RenderDone \/ CompressPage \/ ReturnEntry

SpecEntry == InitEntry /\ [][NextEntry]_vars

(***************************************************************************)
(* resizeToScale (lines 123-137) and ensureMinSide (lines 139-150) called   *)
(* on rasters of every small size.                                          *)
(***************************************************************************)
MaxSide == 50     \* the largest width and height drawn

\* min_side comes from the form; 256 is its default.
MinSides == {16, 64, MIN_SIDE_PX}

\* Scales compressIntoRange passes: scale_min, a SHRINKING midpoint, 1.0, a
\* GROWING step and upscale_max.
Scales == {SCALE_MIN, 6750, One, 12000, UPSCALE_MAX}

InitResize ==
    /\ rin \in { [w |-> w, h |-> h, minSide |-> m] :
                   w \in 1..MaxSide, h \in 1..MaxSide, m \in MinSides }
    /\ rpc = "start"
    /\ rout = << >>
    /\ CompressIdle
    /\ EntryIdle
    /\ BatchIdle
    /\ ExtrasIdle

\* ensureMinSide(img, minSide).
EnsureOnce ==
    /\ rpc = "start"
    /\ rout' = << ensureMinSide(Raster(rin.w, rin.h, FALSE), rin.minSide) >>
    /\ rpc' = "once"
    /\ UNCHANGED rin
    /\ UNCHANGED <<cvars, bvars, evars, xvars>>

\* ensureMinSide applied to what ensureMinSide returned.
EnsureAgain ==
    /\ rpc = "once"
    /\ rout' = Append(rout, ensureMinSide(rout[1], rin.minSide))
    /\ rpc' = "twice"
    /\ UNCHANGED rin
    /\ UNCHANGED <<cvars, bvars, evars, xvars>>

\* resizeToScale(img, scale).
Resize ==
    /\ rpc = "start"
    /\ \E scale \in Scales :
          rout' = << [scale |-> scale,
                      r |-> resizeToScale(Raster(rin.w, rin.h, FALSE), scale)] >>
    /\ rpc' = "resized"
    /\ UNCHANGED rin
    /\ UNCHANGED <<cvars, bvars, evars, xvars>>

NextResize == EnsureOnce \/ EnsureAgain \/ Resize

SpecResize == InitResize /\ [][NextResize]_vars

(***************************************************************************)
(* processHandler, lines 527-575: the jobs collected from the uploaded      *)
(* files and their labels; lines 349, 376 and 611-617: the archive paths    *)
(* their outputs are written to.                                             *)
(***************************************************************************)
MaxFiles == 2

\* A file name: filepath.Ext(name) is ext, the rest is stem.
Name(stem, ext) == [stem |-> stem, ext |-> ext]

\* A directly uploaded file, and an uploaded archive with its entries.  The
\* files of one request have different names.
Direct(stem, ext) == [name |-> Name(stem, ext), entries |-> << >>]

Zip(stem, entries) == [name |-> Name(stem, ".zip"), entries |-> entries]

Uploads ==
    { Direct("a", ".png"), Direct("a", ".jpg"), Direct("a", ".pdf"),
      Direct("a_p1", ".jpg"), Direct("notes", ".txt"),
      Zip("photos", << >>),
      Zip("photos", << Name("a", ".png") >>),
      Zip("photos", << Name("a", ".png"), Name("a", ".jpg") >>),
      Zip("photos", << Name("readme", ".txt"), Name("a", ".jpg") >>),
      Zip("photos_2", << Name("a", ".png") >>),
      Zip("photos_2", << Name("a", ".jpg"), Name("a", ".pdf") >>) }

\* The bases usedLabels can be indexed with.
Bases == { u.name.stem : u \in { v \in Uploads : v.name.ext = ".zip" } }

\* The clock when the request arrives.
Epoch == 1700000000

\* Lines 556 and 569-570: the extension is in IMG_EXT or PDF_EXT.
Accepted(ext) == ext \in {".png", ".jpg", ".pdf"}

InitCollect ==
    /\ \E n \in 1..MaxFiles :
          uploads \in { f \in [1..n -> Uploads] :
                          \A a, b \in 1..n : a # b => f[a].name # f[b].name }
    /\ upos = 1
    /\ now = Epoch
    /\ usedLabels = [b \in Bases |-> 0]
    /\ collected = << >>
    /\ written = {}
    /\ CompressIdle
    /\ EntryIdle
    /\ BatchIdle
    /\ ResizeIdle
    /\ GinImageIdle
    /\ GinMainIdle

\* Lines 553-566: the loop over the entries of one archive, from entry k on.
\* An accepted entry gets the label base when usedLabels[base] is 0 and
\* base_<usedLabels[base]+1> otherwise, and usedLabels[base] is incremented.
RECURSIVE ZipJobs(_, _, _, _, _)
ZipJobs(base, entries, k, used, js) ==
    IF k > Len(entries)
    THEN [used |-> used, jobs |-> js]
    ELSE IF Accepted(entries[k].ext)
    THEN LET lbl == IF used[base] > 0
                    THEN base \o "_" \o ToString(used[base] + 1)
                    ELSE base
         IN  ZipJobs(base, entries, k + 1, [used EXCEPT ![base] = @ + 1],
                     Append(js, [label |-> lbl, rel |-> entries[k]]))
    ELSE ZipJobs(base, entries, k + 1, used, js)

\* Lines 535-574: one pass of the loop over files.  The clock read at line 571
\* has not gone back since the previous read.
CollectFile ==
    /\ upos \in DOMAIN uploads
    /\ LET u == uploads[upos]
       IN  IF u.name.ext = ".zip"
           THEN LET z == ZipJobs(u.name.stem, u.entries, 1, usedLabels, collected)
                IN  /\ usedLabels' = z.used
                    /\ collected' = z.jobs
                    /\ UNCHANGED now
           ELSE /\ \E t \in {now, now + 1} :
                     /\ now' = t
                     /\ collected' =
                           IF Accepted(u.name.ext)
                           THEN Append(collected,
                                       [label |-> "compressed_pict_" \o ToString(t),
                                        rel |-> u.name])
                           ELSE collected
                /\ UNCHANGED usedLabels
    /\ upos' = upos + 1
    /\ UNCHANGED <<uploads, written>>
    /\ UNCHANGED <<cvars, bvars, evars, rvars, gvars, mvars>>

\* Lines 349 and 376: the keys of outs for a job that is processed without a
\* failure; a PDF here has two pages.
OutRels(rel) ==
    IF rel.ext = ".pdf"
    THEN { rel.stem \o "_p" \o ToString(k) \o ".jpg" : k \in 1..2 }
    ELSE { rel.stem \o ".jpg" }

\* Line 613: filepath.Join(lblFolder, rel) with lblFolder = label + "_compressed".
ArchivePath(label, outRel) == label \o "_compressed/" \o outRel

\* Lines 587-618 for job j, once the jobs are collected: the goroutine of the
\* job creates one file entry per key of outs.
WriteJob(j) ==
    /\ upos > Len(uploads)
    /\ j \in DOMAIN collected
    /\ \A e \in written : e.job # j
    /\ written' = written \cup
                     { [job |-> j, path |-> ArchivePath(collected[j].label, o)] :
                         o \in OutRels(collected[j].rel) }
    /\ UNCHANGED <<uploads, upos, now, usedLabels, collected>>
    /\ UNCHANGED <<cvars, bvars, evars, rvars, gvars, mvars>>

NextCollect == CollectFile \/ \E j \in 1..(2 * MaxFiles) : WriteJob(j)

SpecCollect == InitCollect /\ [][NextCollect]_vars

(***************************************************************************)
(* The upload handler of compress.go (lines 40-128) with processAndAddToZip *)
(* (lines 141-195): one goroutine per uploaded file, no pool.               *)
(***************************************************************************)
\* What an uploaded file is: an image that decodes; a file fh.Open fails on;
\* a PDF of two pages (an archive of two images takes the same steps); a file
\* with an extension that is not supported.
GinKinds == {"image", "unreadable", "pdf", "unsupported"}

\* The number of times the goroutine of a file locks mu: once per entry it
\* adds (lines 165-172, 185-192), once for the one error it reports (lines
\* 64-68, 113-117).
Sections(kind) == IF kind = "pdf" THEN 2 ELSE 1

\* Whether a locked section creates an entry in zw.
Creates(kind) == kind \in {"image", "pdf"}

InitGin ==
    /\ \E n \in 1..MaxJobs : mfiles \in [1..n -> GinKinds]
    /\ mdpc = "loop" /\ mnxt = 1
    /\ mwg = 0 /\ mmu = 0
    /\ mtpc = [j \in 1..Len(mfiles) |-> "unborn"]
    /\ mleft = [j \in 1..Len(mfiles) |-> Sections(mfiles[j])]
    /\ mzw = {}
    /\ msummary = << >>
    /\ CompressIdle
    /\ EntryIdle
    /\ BatchIdle
    /\ ResizeIdle
    /\ GinImageIdle
    /\ CollectIdle

\* Lines 60-62: wg.Add(1); go func(fh).
GinDispatch ==
    /\ mdpc = "loop"
    /\ mnxt <= Len(mfiles)
    /\ mwg' = mwg + 1
    /\ mtpc' = [mtpc EXCEPT ![mnxt] = "run"]
    /\ mnxt' = mnxt + 1
    /\ UNCHANGED <<mfiles, mdpc, mmu, mleft, mzw, msummary>>
    /\ UNCHANGED <<cvars, bvars, evars, rvars, gvars, lvars>>

\* Lines 121-122: wg.Wait(); zw.Close().
GinWaitAndClose ==
    /\ mdpc = "loop"
    /\ mnxt > Len(mfiles)
    /\ mwg = 0
    /\ mdpc' = "closed"
    /\ UNCHANGED <<mfiles, mnxt, mwg, mmu, mtpc, mleft, mzw, msummary>>
    /\ UNCHANGED <<cvars, bvars, evars, rvars, gvars, lvars>>

\* mu.Lock() (lines 65, 114, 165, 185), after the file was read, decoded and
\* compressed outside the lock.
GinLock(j) ==
    /\ mtpc[j] = "run"
    /\ mmu = 0
    /\ mmu' = j
    /\ mtpc' = [mtpc EXCEPT ![j] = "locked"]
    /\ UNCHANGED <<mfiles, mdpc, mnxt, mwg, mleft, mzw, msummary>>
    /\ UNCHANGED <<cvars, bvars, evars, rvars, gvars, lvars>>

\* Lines 166-172, 186-192 (zw.Create, w.Write, append) or lines 66-67, 115-116
\* (append only), then mu.Unlock(); the goroutine goes on to its next entry
\* or returns.
GinAdd(j) ==
    /\ mtpc[j] = "locked"
    /\ mzw' = IF Creates(mfiles[j])
              THEN mzw \cup { [job |-> j, n |-> mleft[j], closed |-> mdpc = "closed"] }
              ELSE mzw
    /\ msummary' = Append(msummary, j)
    /\ mmu' = 0
    /\ mleft' = [mleft EXCEPT ![j] = @ - 1]
    /\ mtpc' = [mtpc EXCEPT ![j] = IF mleft[j] = 1 THEN "exit" ELSE "run"]
    /\ UNCHANGED <<mfiles, mdpc, mnxt, mwg>>
    /\ UNCHANGED <<cvars, bvars, evars, rvars, gvars, lvars>>

\* Line 63: the deferred wg.Done().
GinDone(j) ==
    /\ mtpc[j] = "exit"
    /\ mwg' = mwg - 1
    /\ mtpc' = [mtpc EXCEPT ![j] = "done"]
    /\ UNCHANGED <<mfiles, mdpc, mnxt, mmu, mleft, mzw, msummary>>
    /\ UNCHANGED <<cvars, bvars, evars, rvars, gvars, lvars>>

GinHandlerSteps == GinDispatch \/ GinWaitAndClose

GinTaskSteps(j) == GinLock(j) \/ GinAdd(j) \/ GinDone(j)

NextGin == GinHandlerSteps \/ \E j \in DOMAIN mtpc : GinTaskSteps(j)

SpecGin == InitGin /\ [][NextGin]_vars

\* The Go scheduler runs every goroutine that can take a step.
SpecGinFair ==
    /\ SpecGin
    /\ WF_vars(GinHandlerSteps)
    /\ \A j \in 1..MaxJobs : WF_vars(j \in DOMAIN mtpc /\ GinTaskSteps(j))

(***************************************************************************)
(* compressImage of compress.go (lines 197-222): the minimum-side resize    *)
(* and the quality loop.                                                     *)
(***************************************************************************)
\* compress.go, lines 23-29.
TargetKB == 174
MaxQuality == 95
MinQuality == 15
MinSidePx == 256

GinSizes == { <<4000, 3000>>, <<800, 600>>, <<200, 100>>, <<600, 480>>,
             <<400, 400>>, <<60000, 100>> }

GinImages ==
    { [w |-> s[1], h |-> s[2], cplx |-> c, spike |-> k, gain |-> g] :
        s \in GinSizes, c \in Complexities, k \in Spikes, g \in {100, 40} }

InitImage ==
    /\ gimg \in GinImages
    /\ gpc = "start"
    /\ graster = Raster(gimg.w, gimg.h, FALSE)
    /\ gquality = 0
    /\ gbuf = NilData
    /\ gtried = << >>
    /\ CompressIdle
    /\ EntryIdle
    /\ BatchIdle
    /\ ResizeIdle
    /\ CollectIdle
    /\ GinMainIdle

\* Lines 199-205: scale := float64(minSide) / float64(min(w, h)) and
\* imaging.Resize to int(float64(w)*scale) x int(float64(h)*scale) when a side
\* is under MinSidePx; line 209: quality := MaxQuality.
GinResize ==
    /\ gpc = "start"
    /\ graster' = IF gimg.w < MinSidePx \/ gimg.h < MinSidePx
                  THEN Raster(Float64Side(gimg.w, MinSidePx, min(gimg.w, gimg.h)),
                              Float64Side(gimg.h, MinSidePx, min(gimg.w, gimg.h)),
                              TRUE)
                  ELSE graster
    /\ gquality' = MaxQuality
    /\ gpc' = "loop"
    /\ UNCHANGED <<gimg, gbuf, gtried>>
    /\ UNCHANGED <<cvars, bvars, evars, rvars, lvars, mvars>>

\* Lines 214-215: sizeKB := buf.Len() / 1024; sizeKB <= TargetKB.
UnderTarget(n) == n \div 1024 <= TargetKB

\* Lines 210-219: one pass of the loop.  buf.Reset(), jpeg.Encode into buf with
\* its error dropped (on an error nothing has been written), then break or
\* quality -= 5.
GinEncode ==
    /\ gpc = "loop"
    /\ gquality >= MinQuality
    /\ LET e == saveJPGBytes(gimg, graster, gquality)
           b == IF e.err THEN NilData ELSE e.data
       IN  /\ gbuf' = b
           /\ gtried' = Append(gtried, [q |-> gquality, len |-> b.len, err |-> e.err])
           /\ IF UnderTarget(b.len)
              THEN gpc' = "done" /\ UNCHANGED gquality
              ELSE gquality' = gquality - 5 /\ UNCHANGED gpc
    /\ UNCHANGED <<gimg, graster>>
    /\ UNCHANGED <<cvars, bvars, evars, rvars, lvars, mvars>>

\* Lines 210 and 221: quality < MinQuality ends the loop; return buf.Bytes().
GinReturn ==
    /\ gpc = "loop"
    /\ gquality < MinQuality
    /\ gpc' = "done"
    /\ UNCHANGED <<gimg, graster, gquality, gbuf, gtried>>
    /\ UNCHANGED <<cvars, bvars, evars, rvars, lvars, mvars>>

NextImage == GinResize \/ GinEncode \/ GinReturn

SpecImage == InitImage /\ [][NextImage]_vars

(***************************************************************************)
(* Claims about compressIntoRange and tryQualityBS (under SpecCompress).    *)
(***************************************************************************)
Range(seq) == { seq[k] : k \in DOMAIN seq }

MaxOf(S) == CHOOSE x \in S : \A y \in S : y <= x

\* Quality q encodes raster r to at most targetKB*1024 bytes.
Fits(r, q, targetKB) ==
    ~saveJPGBytes(img, r, q).err /\ EncodedLen(img, r, q) <= targetKB * 1024

\* The encoded size of r is non-decreasing in quality over [qmin, qmax].
MonotoneIn(r, qmin, qmax) ==
    \A q \in qmin..(qmax - 1) : EncodedLen(img, r, q) <= EncodedLen(img, r, q + 1)

FitSet(r, targetKB, qmin, qmax) == { q \in qmin..qmax : Fits(r, q, targetKB) }

BSContract(r, targetKB, qmin, qmax, out) ==
    (~out.err /\ MonotoneIn(r, qmin, qmax)) =>
        /\ (out.data = NilData) <=>
               (qmin > qmax \/ EncodedLen(img, r, qmin) > targetKB * 1024)
        /\ out.data # NilData =>
               /\ out.q = MaxOf(FitSet(r, targetKB, qmin, qmax))
               /\ out.data = saveJPGBytes(img, r, out.q).data

ProbeRanges == { <<15, 95>>, <<15, 15>>, <<40, 39>>, <<56, 95>>, <<30, 54>> }

ProbeTargets == { TARGET_KB, MIN_KB, 20 }

\* C1: with encoded size non-decreasing in quality, tryQualityBS returns the
\* encoding at the largest quality of [qmin, qmax] that fits targetKB*1024
\* bytes, and returns nil data exactly when qmin itself does not fit or the
\* range is empty.  Checked on every call compressIntoRange makes and, on the
\* same raster, on a set of further ranges and targets.
C1_QualitySearch ==
    lastBS # NoBS =>
        /\ BSContract(lastBS.r, lastBS.targetKB, lastBS.qmin, lastBS.qmax, lastBS.out)
        /\ \A p \in ProbeRanges, t \in ProbeTargets :
               BSContract(lastBS.r, t, p[1], p[2],
                          tryQualityBS(img, lastBS.r, t, p[1], p[2]))

C1_Witness ==
    /\ lastBS # NoBS
    /\ ~lastBS.out.err
    /\ MonotoneIn(lastBS.r, lastBS.qmin, lastBS.qmax)
    /\ lastBS.out.data # NilData
    /\ lastBS.qmin < lastBS.out.q /\ lastBS.out.q < lastBS.qmax
    /\ ~Fits(lastBS.r, lastBS.out.q + 1, lastBS.targetKB)

\* C2: a result returned without passing through FALLBACK is a real encoding
\* of at most maxKB*1024 bytes, whatever the encoder's size function; the
\* best-so-far held during the search never exceeds the bound either.
C2_UpperBound ==
    /\ bestData # NilData => bestData.len <= cfg.maxKB * 1024
    /\ (pc = "DONE" /\ ~result.err /\ "FALLBACK" \notin Range(trail)) =>
           /\ result.data # NilData
           /\ result.size = result.data.len
           /\ result.size <= cfg.maxKB * 1024

C2_Witness ==
    /\ pc = "DONE" /\ ~result.err
    /\ "GROWING" \in Range(trail)
    /\ ~MonotoneIn(Candidate(result.scale), MIN_QUALITY, MAX_QUALITY)
    /\ result.size > growLog.pre

\* The qualities that encode the unscaled image within the upper bound.
FitSetOriginal == FitSet(Rgb, cfg.maxKB, MIN_QUALITY, MAX_QUALITY)

ReturnsMaxAtFullScale ==
    /\ ~result.err
    /\ result.scale = One
    /\ result.q = MaxOf(FitSetOriginal)
    /\ result.data = saveJPGBytes(img, Rgb, result.q).data

\* C3 as stated: whenever some quality fits at scale 1.0, the result is scale
\* 1.0 at the maximal fitting quality.
C3_AsStated ==
    (pc = "DONE" /\ FitSetOriginal # {}) => ReturnsMaxAtFullScale

\* C3 amended: the same, for images whose encoded size at scale 1.0 is
\* non-decreasing in quality over [MIN_QUALITY, MAX_QUALITY].
C3_MaxQualityAtFullScale ==
    (pc = "DONE" /\ FitSetOriginal # {} /\ MonotoneIn(Rgb, MIN_QUALITY, MAX_QUALITY)) =>
        (ReturnsMaxAtFullScale /\ trail = <<"ORIGINAL", "DONE">>)

C3_Witness ==
    /\ pc = "DONE"
    /\ MonotoneIn(Rgb, MIN_QUALITY, MAX_QUALITY)
    /\ FitSetOriginal # {}
    /\ MIN_QUALITY < result.q /\ result.q < MAX_QUALITY
    /\ result.scale = One

\* C4: a fitting result below the lower bound is never returned without
\* GROWING having been entered, whether it came from SHRINKING or ORIGINAL.
C4_GrowsWhenBelowMin ==
    (pc = "DONE" /\ ~result.err /\ "FALLBACK" \notin Range(trail)
                /\ "GROWING" \notin Range(trail)) =>
        result.size >= cfg.minKB * 1024

NonDecreasing(seq) == \A k \in 1..(Len(seq) - 1) : seq[k] <= seq[k + 1]

\* C5: the best size never decreases while GROWING runs, and a result that
\* reaches DONE via GROWING has the maximum of the size held when GROWING
\* began and the sizes of all fitting GROWING trials (the same-scale quality
\* retry and the upscale iterations).
C5_GrowingMax ==
    /\ NonDecreasing(growLog.hist)
    /\ pc \in {"GROW_RETRY", "GROWING"} => sizeB = growLog.hist[Len(growLog.hist)]
    /\ (pc = "DONE" /\ "GROWING" \in Range(trail)) =>
           /\ result.size = MaxOf({growLog.pre} \cup growLog.fits)
           /\ result.size >= growLog.pre
           /\ growLog.hist[1] = growLog.pre
           /\ result.size = growLog.hist[Len(growLog.hist)]

C5_Witness ==
    /\ pc = "DONE" /\ "GROWING" \in Range(trail)
    /\ \E f \in growLog.fits : f < growLog.pre
    /\ result.size > growLog.pre
    /\ Cardinality(growLog.fits) >= 3

\* C6: when no SHRINKING trial fits, the result is returned without error and
\* is the non-empty encoding at scale scaleMin (min-side floor applied) and
\* MIN_QUALITY, bound or no bound.
C6_FallbackUsable ==
    (pc = "DONE" /\ "FALLBACK" \in Range(trail)) =>
        /\ ~result.err
        /\ result.scale = cfg.scaleMin /\ result.q = MIN_QUALITY
        /\ result.data # NilData
        /\ result.data = saveJPGBytes(img, Candidate(cfg.scaleMin), MIN_QUALITY).data

(***************************************************************************)
(* Claims about processHandler's fan-out (under SpecBatch).                 *)
(***************************************************************************)
Tasks == DOMAIN tpc

\* The job's goroutine has started and has not yet received from sem.
HoldsSlot(j) ==
    tpc[j] \in {"lockDir", "createDir", "process", "summary", "summaryWrite",
                "skippedWrite", "lockOuts", "writeOuts", "release"}

\* The job's goroutine has returned.
Ended(j) == tpc[j] = "done"

\* The summary lines and the failure strings that name job j's file.
SummaryOf(j) == { k \in DOMAIN summaryLines : summaryLines[k].out[1] = jobs[j].rel }

FailuresOf(j) ==
    { k \in DOMAIN skippedAll[jobs[j].label] :
        skippedAll[jobs[j].label][k][1] = jobs[j].rel }

\* What job j's processing produced is in the batch outcome, once each.
OutcomeKept(j) ==
    /\ \A p \in Range(Body(jobs[j]).processed) :
          Cardinality({ k \in SummaryOf(j) : summaryLines[k].out = p }) = 1
    /\ \A f \in Range(Body(jobs[j]).skipped) :
          Cardinality({ k \in FailuresOf(j) : skippedAll[jobs[j].label][k] = f }) = 1

\* C7: a batch of N jobs on a pool of K slots completes, and when it has every
\* job has a recorded success summary or a recorded failure, nothing a job
\* produced is dropped and nothing is recorded twice.
C7_AllOutcomesRecorded ==
    /\ ~crashed
    /\ dpc = "closed" =>
          \A j \in Tasks :
              /\ SummaryOf(j) # {} \/ FailuresOf(j) # {}
              /\ OutcomeKept(j)

\* C8: at most `threads` jobs are being processed at any moment, and the
\* semaphore holds exactly one token per job still being processed: a job
\* that has passed line 618 has given its slot back whether it produced
\* outputs, failures or nothing.
C8_BoundedPool ==
    /\ Cardinality({ j \in Tasks : HoldsSlot(j) }) <= threads
    /\ sem = Cardinality({ j \in Tasks : HoldsSlot(j) })
    /\ sem \in 0..threads

\* With a single slot, a job that failed has ended and a later job has started.
C8_Witness ==
    /\ threads = 1 /\ Len(jobs) >= 2
    /\ jobs[1].kind \in {"badimage", "panic"}
    /\ Ended(1)
    /\ tpc[2] # "unborn"

\* A task is between its read and its write of summaryLines or skippedAll, or
\* is calling into the archive writer.
Accessing(j) == tpc[j] \in {"createDir", "summaryWrite", "skippedWrite", "writeOuts"}

\* C9: a task accesses the archive writer, summaryLines or skippedAll only
\* while it holds the mutex, and no two tasks access them at the same time.
C9_SharedUnderMutex ==
    /\ \A j \in Tasks : Accessing(j) => mu = j
    /\ \A j, k \in Tasks : (j # k /\ Accessing(j)) => ~Accessing(k)

\* C10: a job whose processing panicked ends with a failure string recorded
\* under its label.
C10_PanicRecorded ==
    \A j \in Tasks :
        (Body(jobs[j]).panicked /\ Ended(j)) =>
            \E k \in DOMAIN skippedAll[jobs[j].label] :
                skippedAll[jobs[j].label][k] \in Range(Body(jobs[j]).skipped)

(***************************************************************************)
(* Claims about what becomes of an item (under SpecCompress).               *)
(***************************************************************************)
\* C11: when an encoder call returned an error during an item's
\* compressIntoRange, the item is recorded as a failure and not as an output.
C11_EncoderErrorRecorded ==
    (epc = "returned" /\ encErr) =>
        /\ skipped # << >>
        /\ processed = << >>
        /\ outs = {}

(***************************************************************************)
(* Claims about a document's pages (under SpecEntry).                       *)
(***************************************************************************)
EmittedPages == { o.page : o \in outs }

\* C12: a failure on one page of a document that opened does not abort the
\* others: every page that renders and compresses is emitted.
C12_OtherPagesEmitted ==
    (epc = "returned" /\ doc.opens) =>
        \A n \in DOMAIN doc.pages : doc.pages[n] = "ok" => n \in EmittedPages

(***************************************************************************)
(* Claims about the archive and the batch outcome (under SpecBatch).        *)
(***************************************************************************)
\* The file entries job j's goroutine created.
FilesOf(j) == { e \in zw : ~e.dir /\ e.job = j }

\* The goroutine is past its write of outs.
Written(j) == tpc[j] \in {"release", "exit", "done"}

\* C13: a job that recorded a failure has no file entry in the archive.
C13_NoPartialOutput ==
    \A j \in Tasks :
        (Written(j) /\ Len(ret[j].skipped) > 0) => FilesOf(j) = {}

\* C16: every file entry was created after the directory entries of all the
\* batch's labels.
C16_DirsBeforeFiles ==
    \A e \in zw :
        ~e.dir => \A j \in Tasks : jobs[j].label \in e.after

\* C17: the batch yields an archive; in it every job whose bytes do not decode
\* has its decode failure under its label, and every job that decodes and
\* compresses has its output.
C17_DecodeFailureIsolated ==
    /\ ~crashed
    /\ dpc = "closed" =>
          \A j \in Tasks :
              /\ jobs[j].kind = "badimage" =>
                     \E k \in DOMAIN skippedAll[jobs[j].label] :
                         skippedAll[jobs[j].label][k] = <<jobs[j].rel, "decode error">>
              /\ jobs[j].kind = "image" =>
                     \E e \in FilesOf(j) : e.name = <<jobs[j].rel, 0>>

\* C18: a goroutine holds the mutex only while it creates its folder entry or
\* writes its outputs to the in-memory archive, never while it is inside
\* processOneFileEntry (decoding, rendering, compression search).
C18_LockOnlyForWrites ==
    /\ mu \in {0} \cup Tasks
    /\ \A j \in Tasks :
          /\ mu = j => tpc[j] \in {"createDir", "writeOuts"}
          /\ tpc[j] = "process" => mu # j

\* One goroutine is inside processOneFileEntry while another holds the mutex.
C18_Witness ==
    \E j, k \in Tasks :
        /\ j # k
        /\ tpc[j] = "process"
        /\ mu = k

(***************************************************************************)
(* Claims about resizeToScale and ensureMinSide (under SpecResize).         *)
(***************************************************************************)
\* C14: ensureMinSide applied twice gives the width and height it gives
\* applied once; it never shrinks a side, and returns its input when both
\* sides are at least minSide.
C14_EnsureMinSideIdempotent ==
    /\ rpc \in {"once", "twice"} =>
          /\ rout[1].w >= rin.w /\ rout[1].h >= rin.h
          /\ (rin.w >= rin.minSide /\ rin.h >= rin.minSide) =>
                 rout[1] = Raster(rin.w, rin.h, FALSE)
    /\ rpc = "twice" =>
          /\ rout[2].w = rout[1].w
          /\ rout[2].h = rout[1].h

\* side * scale rounded to the nearest integer (halves up), at least 1.
Rounded(side, scale) == max(1, (2 * side * scale + One) \div (2 * One))

\* C15: resizeToScale's width is round(origWidth * scale) and its height
\* round(origHeight * scale), each at least 1.
C15_ResizeRounds ==
    rpc = "resized" =>
        /\ rout[1].r.w = Rounded(rin.w, rout[1].scale)
        /\ rout[1].r.h = Rounded(rin.h, rout[1].scale)

(***************************************************************************)
(* Claims about the two scale loops (under SpecCompress).                   *)
(***************************************************************************)
\* C19: in SHRINKING scaleMin <= lo <= hi <= 1.0 and the trial scale lies in
\* [scaleMin, 1.0]; each iteration strictly narrows hi - lo; the loop runs at
\* most maxSteps iterations and goes on only while hi - lo >= 1e-3.
C19_ShrinkingBounded ==
    /\ [](/\ i <= maxSteps
          /\ pc = "SHRINKING" =>
                /\ cfg.scaleMin <= lo /\ lo <= hi /\ hi <= One
                /\ cfg.scaleMin <= (lo + hi) \div 2 /\ (lo + hi) \div 2 <= One
                /\ i < maxSteps
                /\ i > 0 => hi - lo >= Eps)
    /\ [][(pc = "SHRINKING" /\ i' = i + 1) => hi' - lo' < hi - lo]_vars

\* The iterations of the GROWING loop run so far never exceed the budget, use
\* scales up to upscaleMax and start only while the best size is below the
\* lower bound.
GrowingBudget ==
    /\ Len(growLog.trials) <= maxIters
    /\ pc = "GROWING" => iters = Len(growLog.trials)
    /\ \A t \in DOMAIN growLog.trials :
          /\ growLog.trials[t].scale <= cfg.upscaleMax
          /\ growLog.trials[t].before < cfg.minKB * 1024

\* C20 as stated: the loop is bounded as above and makes no iteration after
\* one whose scale reached upscaleMax.
C20_AsStated ==
    /\ GrowingBudget
    /\ \A t \in DOMAIN growLog.trials :
          t < Len(growLog.trials) => growLog.trials[t].scale < cfg.upscaleMax

\* C20 amended: an iteration at upscaleMax is followed by another only when
\* its quality search found no fit (the scale is then reduced by 5%).
C20_GrowingBounded ==
    /\ GrowingBudget
    /\ \A t \in DOMAIN growLog.trials :
          (t < Len(growLog.trials) /\ growLog.trials[t].scale = cfg.upscaleMax) =>
              growLog.trials[t].out = "nofit"

\* The loop has used its whole budget, with a no-fit at upscaleMax and a fit
\* among its iterations, and has returned.
C20_Witness ==
    /\ pc = "DONE"
    /\ Len(growLog.trials) = maxIters
    /\ \E t \in DOMAIN growLog.trials :
          growLog.trials[t].scale = cfg.upscaleMax /\ growLog.trials[t].out = "nofit"
    /\ \E t \in DOMAIN growLog.trials : growLog.trials[t].out = "fit"

(***************************************************************************)
(* Claims about the result of compressIntoRange (under SpecCompress).       *)
(***************************************************************************)
\* The bytes the encoder gives for the trial at `scale` and quality q.
TrialBytes(scale, q) == saveJPGBytes(img, Candidate(scale), q).data

\* C22: the best trial held and the result returned are consistent: the
\* length is the payload's length and the payload is the encoding at the
\* scale and quality given with it (at scale 1.0 from ORIGINAL, the encoding
\* of the flattened source itself).
C22_ResultConsistent ==
    /\ bestData # NilData => bestData = TrialBytes(bestScale, bestQ)
    /\ pc \in {"GROW_RETRY", "GROWING"} => sizeB = bestData.len
    /\ (pc = "DONE" /\ ~result.err) =>
          /\ result.size = result.data.len
          /\ result.data = IF "SHRINKING" \in Range(trail)
                           THEN TrialBytes(result.scale, result.q)
                           ELSE saveJPGBytes(img, Rgb, result.q).data

\* GROWING has returned a fit of its loop at a larger scale, adopted after the
\* same-scale retry, in place of the fit SHRINKING handed on.
C22_Witness ==
    /\ pc = "DONE" /\ ~result.err
    /\ "GROWING" \in Range(trail)
    /\ Len(growLog.hist) >= 3
    /\ \E t \in DOMAIN growLog.trials :
          /\ growLog.trials[t].out = "fit"
          /\ growLog.trials[t].scale = result.scale
          /\ growLog.trials[t].before < result.size

\* C23: in SHRINKING every fitting trial is adopted and its scale is above
\* the scale of the fit held before, and a trial that does not fit leaves the
\* fit held as it is; so the fit handed on is the one at the largest scale
\* that fitted.
C23_ShrinkingAdoptsLarger ==
    [][pc = "SHRINKING" =>
          /\ lastBS'.out.data # NilData =>
                /\ bestData' = lastBS'.out.data
                /\ bestScale' = (lo + hi) \div 2
                /\ bestData # NilData => bestScale' > bestScale
          /\ lastBS'.out.data = NilData =>
                UNCHANGED <<bestData, bestScale, bestQ>>]_vars

\* A fit was adopted, a later fit at a larger scale replaced it, and the last
\* trial did not fit.
C23_Witness ==
    /\ pc = "SHRINKING"
    /\ i >= 3
    /\ bestData # NilData
    /\ bestScale > (One + cfg.scaleMin) \div 2
    /\ lastBS.out.data = NilData /\ ~lastBS.out.err

(***************************************************************************)
(* Claims about compressImage of compress.go (under SpecImage).             *)
(***************************************************************************)
\* The qualities the loop can try: 95, 90, ..., 15.
TriedSet == { MaxQuality - 5 * k : k \in 0..((MaxQuality - MinQuality) \div 5) }

\* Every encode is at a quality of 95, 90, ..., 15, each at most once and in
\* that order, so there are at most 17 of them.
GinQualitiesBounded ==
    /\ Len(gtried) <= 17
    /\ \A k \in DOMAIN gtried : gtried[k].q = MaxQuality - 5 * (k - 1)
    /\ \A k \in DOMAIN gtried : gtried[k].q \in TriedSet
    /\ \A k \in DOMAIN gtried : MinQuality <= gtried[k].q /\ gtried[k].q <= MaxQuality

\* C25: compressImage encodes only at qualities in [15, 95], at most 17
\* times, and when some quality of 95, 90, ..., 15 encodes to at most
\* TargetKB*1024 bytes, what it returns is at most TargetKB*1024 bytes.
C25_CompressImageWithinTarget ==
    /\ GinQualitiesBounded
    /\ (/\ gpc = "done"
        /\ \E q \in TriedSet :
              LET e == saveJPGBytes(gimg, graster, q)
              IN  ~e.err /\ e.data.len <= TargetKB * 1024)
       => gbuf.len <= TargetKB * 1024

(***************************************************************************)
(* Claims about the archive paths of one batch (under SpecCollect).         *)
(***************************************************************************)
\* C24: the file entries written for one batch have pairwise distinct paths:
\* two entries of different jobs never share a path.
C24_PathsDistinct ==
    \A e1, e2 \in written : e1.job # e2.job => e1.path # e2.path

(***************************************************************************)
(* Claims about the dispatcher finishing (under SpecBatchFair).             *)
(***************************************************************************)
\* The archive writer is closed only after every job's goroutine has ended,
\* and nothing is written to it once it is closed.
ClosedAfterTasks ==
    /\ [](dpc = "closed" => \A j \in DOMAIN tpc : tpc[j] = "done")
    /\ [][dpc = "closed" => zw' = zw]_vars

\* Every goroutine that waits is waiting for mu, and mu is held by a goroutine
\* that can take a step: no goroutine waits on a goroutine that waits.
NoCircularWait ==
    [](\A j \in DOMAIN tpc :
          (~crashed /\ tpc[j] \in {"lockDir", "lockOuts"} /\ mu # 0) =>
              tpc[mu] \in {"createDir", "writeOuts"})

\* C21: for every pool size of at least 1 and every list of jobs, no goroutine
\* waits on one that waits, every job's goroutine eventually ends, and the
\* archive is closed, after all of them have ended and with no write after it.
C21_DispatcherCompletes ==
    /\ ClosedAfterTasks
    /\ NoCircularWait
    /\ <>(\A j \in DOMAIN tpc : tpc[j] = "done")
    /\ <>(dpc = "closed")

\* The same for the upload handler of compress.go (under SpecGinFair).
GinHandlerCompletes ==
    /\ [](mdpc = "closed" => \A j \in DOMAIN mtpc : mtpc[j] = "done")
    /\ [](\A e \in mzw : ~e.closed)
    /\ [](\A j \in DOMAIN mtpc : (mtpc[j] = "run" /\ mmu # 0) => mtpc[mmu] = "locked")
    /\ <>(\A j \in DOMAIN mtpc : mtpc[j] = "done")
    /\ <>(mdpc = "closed")

====
